---------------------------- MODULE Spec2Model ----------------------------
(***************************************************************************)
(* Model of src/app.py: the "Buffett Market Scanner".                      *)
(*                                                                         *)
(* Numbers.  Every real number of the program is held in fixed point, in   *)
(* thousandths: the Python value x is the integer 1000 * x.  The inputs    *)
(* are chosen so that every product and quotient the code forms, except    *)
(* the ones it rounds, is exact in thousandths.  round(x, n) is Python's   *)
(* round-half-to-even.                                                     *)
(*                                                                         *)
(* A field of the provider's mapping is absent, None, or a number.         *)
(*                                                                         *)
(* Two specifications:                                                     *)
(*   Spec         the dashboard: the symbol list, the Start button, the    *)
(*                scan loop over analyze_stock and the final sort;         *)
(*   SpecAnalyze  one call of analyze_stock on every mapping of a wide     *)
(*                input set.                                               *)
(***************************************************************************)
EXTENDS Integers, Sequences, FiniteSets, TLC

VARIABLES
    tickers_to_scan,  \* app.py:32-40   the list the sidebar built
    provider,         \* the data provider: ticker -> response of yf.Ticker(t).info
    pc,               \* where the script is
    i,                \* app.py:127     number of tickers processed
    results_data,     \* app.py:120     the dicts collected so far
    df,               \* app.py:141-144 the sorted DataFrame (the report)
    resp,             \* app.py:51-52   the response of the last fetch
    loc,              \* app.py:59-98   locals of the last analyze_stock call
    data              \* app.py:129     what the last analyze_stock call returned

vars == <<tickers_to_scan, provider, pc, i, results_data, df, resp, loc, data>>

----------------------------------------------------------------------------
(* Bounds *)

MaxSymbols == 3      \* longest symbol list pasted into the sidebar

----------------------------------------------------------------------------
(* Values of the provider's mapping *)

Absent == [tag |-> "absent", val |-> 0]     \* key not in info
None   == [tag |-> "none",   val |-> 0]     \* key present, value None
Num(v) == [tag |-> "num",    val |-> v]     \* key present, a number (thousandths)

FieldNames == {"currentPrice", "regularMarketPrice", "trailingEps", "returnOnEquity",
               "debtToEquity", "operatingMargins", "earningsGrowth"}

\* dict.get(key, default): the default only replaces an absent key.
Get(info, key, default) == IF info[key].tag = "absent" THEN default ELSE info[key]

\* Python truthiness of a number or None.
Truthy(x) == x.tag = "num" /\ x.val # 0

\* Python's `a or b`.
Or(a, b) == IF Truthy(a) THEN a ELSE b

\* `not info`: an empty mapping.
IsEmpty(info) == \A k \in FieldNames : info[k].tag = "absent"

Min(a, b) == IF a < b THEN a ELSE b
Max(a, b) == IF a > b THEN a ELSE b

\* n / d rounded to the nearest integer, ties to even (d # 0).
RoundDiv(n, d) ==
    LET nn == IF d < 0 THEN -n ELSE n
        dd == IF d < 0 THEN -d ELSE d
        q  == nn \div dd
        r  == nn % dd
    IN  IF 2 * r < dd THEN q
        ELSE IF 2 * r > dd THEN q + 1
        ELSE IF q % 2 = 0 THEN q ELSE q + 1

\* round(x, 2) and round(x, 1) of a value in thousandths.
Round2(x) == 10 * RoundDiv(x, 10)
Round1(x) == 100 * RoundDiv(x, 100)


----------------------------------------------------------------------------
(* The sidebar: building tickers_to_scan (app.py:35-40) *)

\* A symbol is a sequence of tokens; ".NS" is the exchange suffix.
Upper(tok) == IF tok = "a" THEN "A" ELSE IF tok = ".ns" THEN ".NS" ELSE tok

\* x.strip().upper() of one pasted symbol (the pasted symbols carry no blanks).
Clean(x) == [k \in 1..Len(x) |-> Upper(x[k])]

\* x.endswith(".NS")
EndsWithNS(x) == Len(x) > 0 /\ x[Len(x)] = ".NS"

\* f"{x}.NS" if not x.endswith(".NS") else x
WithSuffix(x) == IF EndsWithNS(x) THEN x ELSE Append(x, ".NS")

\* The custom list: an empty text gives [], otherwise one ticker per pasted symbol.
TickersOf(custom_input) ==
    IF custom_input = <<>> THEN <<>>
    ELSE [k \in 1..Len(custom_input) |-> WithSuffix(Clean(custom_input[k]))]

\* ticker.replace(".NS", ""): every ".NS" is removed.
StripNS(ticker) == SelectSeq(ticker, LAMBDA tok : tok # ".NS")

----------------------------------------------------------------------------
(* analyze_stock (app.py:45-113) *)

DefaultGrowth   == 50       \* 0.05
GrowthCap       == 15000    \* 15
GrahamBase      == 8500     \* 8.5
RoeThreshold    == 15000    \* 15
DebtThreshold   == 500      \* 0.5
MarginThreshold == 20000    \* 20

HasPriceField_NoCheck(info) == TRUE

\* line 55, negated: the mapping is not empty and has the key regularMarketPrice.
HasPriceField(info) == ~IsEmpty(info) /\ info["regularMarketPrice"].tag # "absent"

\* line 59
CurrentPrice(info) ==
    Or(Get(info, "currentPrice", None), Get(info, "regularMarketPrice", Num(0)))

\* lines 60, 62: (info.get(k, 0) or 0) * 100
Percent(info, key) == Or(Get(info, key, Num(0)), Num(0)).val * 100

\* line 61: (info.get('debtToEquity', 0) or 0) / 100
DebtToEquity(info) == Or(Get(info, "debtToEquity", Num(0)), Num(0)).val \div 100

\* line 63
Eps(info) == Get(info, "trailingEps", Num(0))

\* line 67
GrowthEstimate(info) ==
    Or(Get(info, "earningsGrowth", Num(DefaultGrowth)), Num(DefaultGrowth)).val * 100

CappedGrowth_NoFloor(growth_estimate) == Min(growth_estimate, GrowthCap)

\* lines 68-69
CappedGrowth(growth_estimate) == Max(Min(growth_estimate, GrowthCap), 0)

IntrinsicValue_NoGuard(eps, capped_growth) ==
    (eps * (GrahamBase + 2 * capped_growth)) \div 1000

\* lines 71-73 (eps is a number here)
IntrinsicValue(eps, capped_growth) ==
    IF eps > 0 THEN (eps * (GrahamBase + 2 * capped_growth)) \div 1000 ELSE 0

\* line 79
IsCheap(current_price, intrinsic_value) ==
    (current_price < intrinsic_value) /\ (intrinsic_value > 0)

\* line 83
IsEfficient(roe) == roe > RoeThreshold

IsSafe_Inclusive(debt_to_equity) == debt_to_equity <= DebtThreshold

\* line 87
IsSafe(debt_to_equity) == debt_to_equity < DebtThreshold

\* line 91
IsMoat(op_margin) == op_margin > MarginThreshold

\* lines 76-92: one point for each criterion that passes
Score(is_cheap, is_efficient, is_safe, is_moat) ==
    LET s0 == 0
        s1 == IF is_cheap THEN s0 + 1 ELSE s0
        s2 == IF is_efficient THEN s1 + 1 ELSE s1
        s3 == IF is_safe THEN s2 + 1 ELSE s2
        s4 == IF is_moat THEN s3 + 1 ELSE s3
    IN  s4

Recommendation_BuyAsWatch(score) ==
    IF score = 4 THEN "Strong Buy"
    ELSE IF score >= 2 THEN "Watch"
    ELSE "Avoid"

\* lines 95-98
Recommendation(score) ==
    IF score = 4 THEN "Strong Buy"
    ELSE IF score = 3 THEN "Buy"
    ELSE IF score = 2 THEN "Watch"
    ELSE "Avoid"

\* line 104: round(((iv - price) / price) * 100, 1) if price else 0
Upside(intrinsic_value, current_price) ==
    IF current_price # 0
    THEN 100 * RoundDiv((intrinsic_value - current_price) * 1000, current_price)
    ELSE 0

\* The locals before any call, and the fields a raised exception leaves unset.
NoLocals ==
    [outcome |-> "not_called", current_price |-> None, eps |-> None,
     roe |-> 0, debt_to_equity |-> 0, op_margin |-> 0,
     growth_estimate |-> 0, capped_growth |-> 0, intrinsic_value |-> 0,
     is_cheap |-> FALSE, is_efficient |-> FALSE, is_safe |-> FALSE, is_moat |-> FALSE,
     score |-> 0, recommendation |-> "Avoid"]

\* The return value None is the empty sequence, a dict d is <<d>>.
NoData == <<>>

\* One result of analyze_stock: the locals it left and the value it returned.
analyze_stock(ticker, r) ==
    IF ~r.ok
    THEN \* line 52 raises; line 112 returns None
         [loc |-> [NoLocals EXCEPT !.outcome = "fetch_error"], data |-> NoData]
    ELSE IF ~HasPriceField(r.info)
    THEN \* line 56
         [loc |-> [NoLocals EXCEPT !.outcome = "no_price_field"], data |-> NoData]
    ELSE
    LET info            == r.info
        current_price   == CurrentPrice(info)
        roe             == Percent(info, "returnOnEquity")
        debt_to_equity  == DebtToEquity(info)
        op_margin       == Percent(info, "operatingMargins")
        eps             == Eps(info)
        growth_estimate == GrowthEstimate(info)
        capped_growth   == CappedGrowth(growth_estimate)
        normalized      == [NoLocals EXCEPT
                               !.current_price = current_price, !.eps = eps,
                               !.roe = roe, !.debt_to_equity = debt_to_equity,
                               !.op_margin = op_margin,
                               !.growth_estimate = growth_estimate,
                               !.capped_growth = capped_growth]
    IN  IF eps.tag # "num"
        THEN \* line 72: None > 0 raises TypeError; line 112 returns None
             [loc |-> [normalized EXCEPT !.outcome = "type_error"], data |-> NoData]
        ELSE
        LET intrinsic_value == IntrinsicValue(eps.val, capped_growth)
        IN  IF current_price.tag # "num"
            THEN \* line 79: None < number raises TypeError
                 [loc |-> [normalized EXCEPT !.outcome = "type_error",
                                             !.intrinsic_value = intrinsic_value],
                  data |-> NoData]
            ELSE
            LET price          == current_price.val
                is_cheap       == IsCheap(price, intrinsic_value)
                is_efficient   == IsEfficient(roe)
                is_safe        == IsSafe(debt_to_equity)
                is_moat        == IsMoat(op_margin)
                score          == Score(is_cheap, is_efficient, is_safe, is_moat)
                recommendation == Recommendation(score)
            IN  [loc |-> [normalized EXCEPT
                             !.outcome = "ok",
                             !.intrinsic_value = intrinsic_value,
                             !.is_cheap = is_cheap, !.is_efficient = is_efficient,
                             !.is_safe = is_safe, !.is_moat = is_moat,
                             !.score = score, !.recommendation = recommendation],
                 data |-> << [Symbol         |-> StripNS(ticker),
                              Price          |-> Round2(price),
                              IntrinsicValue |-> Round2(intrinsic_value),
                              Upside         |-> Upside(intrinsic_value, price),
                              Score          |-> score,
                              Recommendation |-> recommendation,
                              ROE            |-> Round1(roe),
                              DebtEq         |-> Round2(debt_to_equity),
                              OpMargin       |-> Round1(op_margin)] >>]

----------------------------------------------------------------------------
(* The report: pd.DataFrame(results_data).sort_values(...) (app.py:141-144) *)

\* pd.DataFrame(list of dicts): row k gets the index label k - 1.
DataFrame(rows) ==
    [k \in 1..Len(rows) |->
        [idx |-> k - 1, Symbol |-> rows[k].Symbol, Price |-> rows[k].Price,
         IntrinsicValue |-> rows[k].IntrinsicValue, Upside |-> rows[k].Upside,
         Score |-> rows[k].Score, Recommendation |-> rows[k].Recommendation,
         ROE |-> rows[k].ROE, DebtEq |-> rows[k].DebtEq, OpMargin |-> rows[k].OpMargin]]

ComesBefore_UpsideFirst(a, b) ==
    \/ a.Upside > b.Upside
    \/ a.Upside = b.Upside /\ a.Score > b.Score

\* by=["Score", "Upside (%)"], ascending=[False, False]: a sorts strictly before b.
ComesBefore(a, b) ==
    \/ a.Score > b.Score
    \/ a.Score = b.Score /\ a.Upside > b.Upside

\* Row e put into the sorted rows s, after every row it does not strictly precede.
RECURSIVE InsertRow(_, _)
InsertRow(e, s) ==
    IF s = <<>> THEN <<e>>
    ELSE IF ComesBefore(e, Head(s)) THEN <<e>> \o s
    ELSE <<Head(s)>> \o InsertRow(e, Tail(s))

\* sort_values on several columns is a stable lexicographic sort: the rows are
\* taken in index order and equal keys keep that order.
RECURSIVE SortFirst(_, _)
SortFirst(frame, n) ==
    IF n = 0 THEN <<>> ELSE InsertRow(frame[n], SortFirst(frame, n - 1))

sort_values(frame) == SortFirst(frame, Len(frame))

----------------------------------------------------------------------------
(* Inputs *)

Mapping(cp, rmp, eps, roe, de, om, eg) ==
    [currentPrice |-> cp, regularMarketPrice |-> rmp, trailingEps |-> eps,
     returnOnEquity |-> roe, debtToEquity |-> de, operatingMargins |-> om,
     earningsGrowth |-> eg]

EmptyMapping == Mapping(Absent, Absent, Absent, Absent, Absent, Absent, Absent)

Fetched(info) == [ok |-> TRUE, info |-> info]   \* stock.info returned a mapping
Failure       == [ok |-> FALSE, info |-> EmptyMapping]   \* stock.info raised

Missing == {Absent, None}

\* The mappings one call of analyze_stock is checked on (SpecAnalyze).
CurrentPriceValues == Missing \cup {Num(0), Num(400000), Num(400125)}
RegularPriceValues == Missing \cup {Num(0), Num(100000)}
EpsValues          == Missing \cup {Num(0), Num(-5000), Num(50000)}
RoeValues          == Missing \cup {Num(150), Num(180)}
DebtValues         == Missing \cup {Num(45000), Num(50000), Num(60000)}
MarginValues       == Missing \cup {Num(200), Num(250)}
GrowthValues       == Missing \cup {Num(0), Num(-100), Num(200)}

Infos ==
    { Mapping(cp, rmp, eps, roe, de, om, eg) :
        cp \in CurrentPriceValues, rmp \in RegularPriceValues, eps \in EpsValues,
        roe \in RoeValues, de \in DebtValues, om \in MarginValues, eg \in GrowthValues }

\* The responses the provider gives during a scan (Spec).
StrongA == Mapping(Num(400000), Num(100000), Num(50000), Num(180), Num(45000), Num(250), Num(200))
StrongB == Mapping(Num(400125), Num(100000), Num(50000), Num(180), Num(45000), Num(250), Num(200))
WatchHi == Mapping(None, Num(100000), Num(50000), Absent, Num(60000), Num(250), Num(200))
ZeroPx  == Mapping(Num(0), Num(0), Num(50000), Num(180), Num(45000), Num(200), Absent)
NoPrice == Mapping(Num(400000), Absent, Num(50000), Num(180), Num(45000), Num(250), Num(200))
NullEps == Mapping(Num(400000), Num(100000), None, Num(180), Num(45000), Num(250), Num(200))

Responses ==
    {Failure, Fetched(NoPrice), Fetched(NullEps), Fetched(StrongA), Fetched(StrongB),
     Fetched(WatchHi), Fetched(ZeroPx)}

\* What the user pastes: symbols with and without the suffix, in either case.
\* (The NIFTY 50 choice, lines 32-33, gives a fixed list of suffixed tickers; the
\* custom list gives every list of that shape up to MaxSymbols, and repeats too.)
PastedSymbols == { <<"A">>, <<"a", ".ns">>, <<"B">>, <<"C">> }

Tickers == { WithSuffix(Clean(x)) : x \in PastedSymbols }

RECURSIVE SeqsUpTo(_, _)
SeqsUpTo(S, n) ==
    IF n = 0 THEN { <<>> }
    ELSE LET shorter == SeqsUpTo(S, n - 1)
         IN  shorter \cup { Append(q, x) : q \in shorter, x \in S }

CustomInputs == SeqsUpTo(PastedSymbols, MaxSymbols)

----------------------------------------------------------------------------
(* Spec: the dashboard *)

Init ==
    /\ \E custom_input \in CustomInputs : tickers_to_scan = TickersOf(custom_input)
    /\ provider \in [Tickers -> Responses]
    /\ pc = "idle"
    /\ i = 0
    /\ results_data = <<>>
    /\ df = <<>>
    /\ resp = Failure
    /\ loc = NoLocals
    /\ data = NoData

\* The button is pressed with no symbols (lines 116-118).  Pressing it again
\* reruns the script from the top.
StartEmpty ==
    /\ pc # "scan"
    /\ tickers_to_scan = <<>>
    /\ pc' = "no_symbols"
    /\ i' = 0
    /\ results_data' = <<>>
    /\ df' = <<>>
    /\ resp' = Failure
    /\ loc' = NoLocals
    /\ data' = NoData
    /\ UNCHANGED <<tickers_to_scan, provider>>

\* The button is pressed with symbols to scan (lines 116-122).
StartScan ==
    /\ pc # "scan"
    /\ tickers_to_scan # <<>>
    /\ pc' = "scan"
    /\ i' = 0
    /\ results_data' = <<>>
    /\ df' = <<>>
    /\ resp' = Failure
    /\ loc' = NoLocals
    /\ data' = NoData
    /\ UNCHANGED <<tickers_to_scan, provider>>

\* One iteration of the loop (lines 127-134); the last iteration runs on into
\* the display of the results (lines 136-177).
ScanStep ==
    /\ pc = "scan"
    /\ i < Len(tickers_to_scan)
    /\ LET ticker  == tickers_to_scan[i + 1]
           r       == provider[ticker]
           res     == analyze_stock(ticker, r)
           results == IF res.data # NoData THEN results_data \o res.data
                      ELSE results_data
       IN  /\ resp' = r
           /\ loc' = res.loc
           /\ data' = res.data
           /\ results_data' = results
           /\ i' = i + 1
           /\ IF i + 1 < Len(tickers_to_scan)
              THEN pc' = "scan" /\ df' = df
              ELSE IF results # <<>>
                   THEN pc' = "done" /\ df' = sort_values(DataFrame(results))
                   ELSE pc' = "no_data" /\ df' = <<>>
    /\ UNCHANGED <<tickers_to_scan, provider>>

Next == StartEmpty \/ StartScan \/ ScanStep

Spec == Init /\ [][Next]_vars

----------------------------------------------------------------------------
(* SpecAnalyze: one call of analyze_stock *)

AnalyzedTicker == <<"A", ".NS">>

InitAnalyze ==
    /\ tickers_to_scan = <<AnalyzedTicker>>
    /\ resp \in {Failure} \cup { Fetched(info) : info \in Infos }
    /\ provider = [t \in Tickers |-> Failure]
    /\ pc = "call"
    /\ i = 0
    /\ results_data = <<>>
    /\ df = <<>>
    /\ loc = NoLocals
    /\ data = NoData

AnalyzeCall ==
    /\ pc = "call"
    /\ LET res == analyze_stock(AnalyzedTicker, resp)
       IN  /\ loc' = res.loc
           /\ data' = res.data
    /\ pc' = "returned"
    /\ UNCHANGED <<tickers_to_scan, provider, i, results_data, df, resp>>

NextAnalyze == AnalyzeCall

SpecAnalyze == InitAnalyze /\ [][NextAnalyze]_vars

----------------------------------------------------------------------------
(* Properties *)

Returned == loc.outcome # "not_called"
Scored   == loc.outcome = "ok"

\* The fetch failed, or the mapping lacks the required price field.
Skipped(r) == ~r.ok \/ r.info["regularMarketPrice"].tag = "absent"

\* A mapping with every field present and numeric.
Complete(r) == r.ok /\ \A f \in FieldNames : r.info[f].tag = "num"

SymbolsOf(rows) == { rows[k].Symbol : k \in 1..Len(rows) }

\* C1: once the scan has processed every symbol, the report holds exactly the
\* collected results, ordered by Score descending, then Upside descending, and
\* rows with equal Score and equal Upside keep the order in which they were scanned.
C1_ReportSorted ==
    pc = "done" =>
        /\ Len(df) = Len(results_data)
        /\ \A k \in 1..Len(df) :
              /\ df[k].idx \in 0..(Len(results_data) - 1)
              /\ df[k] = DataFrame(results_data)[df[k].idx + 1]
        /\ \A j, k \in 1..Len(df) : j # k => df[j].idx # df[k].idx
        /\ \A k \in 1..(Len(df) - 1) :
              \/ df[k].Score > df[k + 1].Score
              \/ df[k].Score = df[k + 1].Score /\ df[k].Upside >= df[k + 1].Upside
        /\ \A j, k \in 1..Len(df) :
              (j < k /\ df[j].Score = df[k].Score /\ df[j].Upside = df[k].Upside)
                  => df[j].idx < df[k].idx

\* C1 witness: a finished scan whose sort moved rows, with two rows of different
\* symbols tied on both keys, two rows of equal score and different upside, and a
\* row of lower score but higher upside than the row it follows.
C1_Witness ==
    /\ pc = "done"
    /\ df # DataFrame(results_data)
    /\ \E j, k \in 1..Len(df) :
          /\ j < k /\ df[j].Symbol # df[k].Symbol
          /\ df[j].Score = df[k].Score /\ df[j].Upside = df[k].Upside
    /\ \E j, k \in 1..Len(df) :
          j < k /\ df[j].Score > df[k].Score /\ df[j].Upside < df[k].Upside

\* C2 (as claimed): a fetched mapping whose regularMarketPrice is a number always
\* yields a result, which is appended to the collected results, whatever other
\* fields are absent or None.
C2_TotalOverMissingFields ==
    (Returned /\ resp.ok /\ resp.info["regularMarketPrice"].tag = "num") =>
        /\ data # NoData
        /\ results_data # <<>>
        /\ results_data[Len(results_data)] = data[1]

\* C3: a symbol whose fetch fails or whose mapping lacks the price field is in no
\* result and no report, the scan still processes every symbol, a complete
\* mapping is scored wherever it stands in the list, and the report is no longer
\* than the symbol list.
C3_SkipAndContinue ==
    /\ Len(results_data) <= i
    /\ i <= Len(tickers_to_scan)
    /\ Len(df) <= Len(tickers_to_scan)
    /\ (Returned /\ Skipped(resp)) => data = NoData
    /\ pc \in {"done", "no_data"} =>
          /\ i = Len(tickers_to_scan)
          /\ Len(df) = Len(results_data)
          /\ SymbolsOf(df) = SymbolsOf(results_data)
    /\ \A k \in 1..i :
          LET r == provider[tickers_to_scan[k]]
              symbol == StripNS(tickers_to_scan[k])
          IN  /\ Skipped(r) => symbol \notin SymbolsOf(results_data) \cup SymbolsOf(df)
              /\ Complete(r) => symbol \in SymbolsOf(results_data)

\* C3 witness: a finished scan in which a failed fetch and a mapping without the
\* price field both come before a symbol that is scored and reported.
C3_Witness ==
    /\ pc = "done"
    /\ \E j, k, m \in 1..Len(tickers_to_scan) :
          /\ j < m /\ k < m
          /\ ~provider[tickers_to_scan[j]].ok
          /\ provider[tickers_to_scan[k]].ok
          /\ provider[tickers_to_scan[k]].info["regularMarketPrice"].tag = "absent"
          /\ Complete(provider[tickers_to_scan[m]])
          /\ StripNS(tickers_to_scan[m]) \in SymbolsOf(df)

\* C4: the score of every result is in 0..4 and is the number of criteria that
\* pass: price < intrinsic value with intrinsic value > 0, roe > 15,
\* debt to equity < 0.5, operating margin > 20.
C4_ScoreCountsCriteria ==
    Scored =>
        LET price  == loc.current_price.val
            points == (IF price < loc.intrinsic_value /\ loc.intrinsic_value > 0
                       THEN 1 ELSE 0)
                      + (IF loc.roe > 15000 THEN 1 ELSE 0)
                      + (IF loc.debt_to_equity < 500 THEN 1 ELSE 0)
                      + (IF loc.op_margin > 20000 THEN 1 ELSE 0)
        IN  /\ loc.score \in 0..4
            /\ loc.score = points
            /\ data[1].Score = points

\* C4 witness: a result whose debt to equity is exactly 0.5 and whose other three
\* criteria pass.
C4_Witness ==
    /\ Scored
    /\ loc.debt_to_equity = 500
    /\ loc.is_cheap /\ loc.is_efficient /\ loc.is_moat
    /\ loc.score = 3

\* C5 (as claimed): an earningsGrowth of exactly 0 is kept: the growth estimate
\* and the capped growth of the result are 0 and, for eps > 0, its intrinsic value
\* is eps * 8.5.
C5_ZeroGrowthKept ==
    (Scored /\ resp.info["earningsGrowth"] = Num(0)) =>
        /\ loc.growth_estimate = 0
        /\ loc.capped_growth = 0
        /\ loc.eps.val > 0 => 1000 * loc.intrinsic_value = loc.eps.val * 8500

\* C6 (as claimed): the price a result is scored on is currentPrice whenever that
\* field is a number, zero included; otherwise regularMarketPrice; otherwise 0.
C6_PriceFallback ==
    Scored =>
        LET cp  == resp.info["currentPrice"]
            rmp == resp.info["regularMarketPrice"]
        IN  loc.current_price = IF cp.tag = "num" THEN cp
                                ELSE IF rmp.tag = "num" THEN rmp
                                ELSE Num(0)

\* C7: when eps <= 0 the intrinsic value is 0 and the margin-of-safety criterion
\* fails, so the score is at most 3 and the recommendation is not Strong Buy.
C7_LossMakingNeverCheap ==
    (Scored /\ loc.eps.val <= 0) =>
        /\ loc.intrinsic_value = 0
        /\ ~loc.is_cheap
        /\ loc.score <= 3
        /\ loc.recommendation # "Strong Buy"
        /\ data[1].IntrinsicValue = 0
        /\ data[1].Recommendation # "Strong Buy"

\* C7 witness: a result with negative eps whose other three criteria pass.
C7_Witness ==
    /\ Scored
    /\ loc.eps.val < 0
    /\ loc.score = 3

\* C8: capped growth is the growth estimate clamped to [0, 15], and for eps > 0
\* the intrinsic value is eps * (8.5 + 2 * capped growth), between 8.5 * eps and
\* 38.5 * eps.
C8_GrahamValue ==
    Scored =>
        LET g  == loc.growth_estimate
            cg == loc.capped_growth
        IN  /\ cg >= 0 /\ cg <= 15000
            /\ cg = IF g < 0 THEN 0 ELSE IF g > 15000 THEN 15000 ELSE g
            /\ loc.eps.val > 0 =>
                  /\ 1000 * loc.intrinsic_value = loc.eps.val * (8500 + 2 * cg)
                  /\ 8500 * loc.eps.val <= 1000 * loc.intrinsic_value
                  /\ 1000 * loc.intrinsic_value <= 38500 * loc.eps.val

\* C8 witness: a result with eps > 0 and a negative growth estimate.
C8_Witness ==
    /\ Scored
    /\ loc.eps.val > 0
    /\ loc.growth_estimate < 0
    /\ 1000 * loc.intrinsic_value = 8500 * loc.eps.val

\* C9: the recommendation of a result is fixed by its score: 4 Strong Buy, 3 Buy,
\* 2 Watch, 0 or 1 Avoid.
C9_RecommendationFromScore ==
    Scored =>
        LET d == data[1]
        IN  /\ d.Score = 4 => d.Recommendation = "Strong Buy"
            /\ d.Score = 3 => d.Recommendation = "Buy"
            /\ d.Score = 2 => d.Recommendation = "Watch"
            /\ d.Score \in {0, 1} => d.Recommendation = "Avoid"
            /\ d.Score \in 0..4

\* C9 witness: a result of score 3 recommended Buy.
C9_Witness ==
    /\ Scored
    /\ data[1].Score = 3
    /\ data[1].Recommendation = "Buy"

\* C10 (as claimed): a price of 0 never drops the symbol and gives a result with
\* upside 0; any other price gives upside = (intrinsic value - price) / price * 100.
C10_UpsideAndZeroPrice ==
    /\ (Returned /\ loc.current_price = Num(0)) =>
          /\ data # NoData
          /\ data[1].Upside = 0
    /\ (Scored /\ loc.current_price.val # 0) =>
          data[1].Upside * loc.current_price.val
              = (loc.intrinsic_value - loc.current_price.val) * 100000

=============================================================================
